---- MODULE Spec2Model ----
(***************************************************************************)
(* Travault: the upload-to-storage pipeline with deduplication, the        *)
(* persistence gateway (documents, reminders, storage objects) and the     *)
(* Dashboard handlers that drive them.                                     *)
(*                                                                         *)
(* One browser session of one user is modelled.  Every handler invocation  *)
(* is a task; a task advances one awaited backend call at a time, so the   *)
(* handlers interleave exactly at their await points.  uuidv4() is         *)
(* modelled by the invocation number: upload number n stores its file      *)
(* under storage path n and creates document id n, reminder k of that      *)
(* document has id <<n, k>>.                                               *)
(*                                                                         *)
(* A behaviour is cut off after MaxEvents events, an event being a handler *)
(* invocation or a failed backend call; at most MaxTasks invocations are   *)
(* in flight at a time and at most MaxFaults backend calls fail.           *)
(*                                                                         *)
(* Besides the session (Spec, SpecReliable) the module holds the gateway   *)
(* on a store shared with a second user (SpecGateway), the page load on    *)
(* the stores two users can build (SpecLoad), a document written and read  *)
(* back (SpecRoundTrip), processFile applied to the files a user can       *)
(* choose (SpecProcess), the calendar export (SpecCalendar), the chat     *)
(* widget (SpecChat) and the deletion of reminders of a document that has  *)
(* several (SpecReminders).                                                *)
(***************************************************************************)
EXTENDS Integers, FiniteSets, Sequences, TLC

\* ---- bounds ----
MaxTasks == 2
MaxEvents == 3
MaxRems == 1
MaxFaults == 1
MaxPages == 6
MaxExports == 2

\* ---- value spaces ----
TaskIds == 1..MaxEvents
Contents == {"A", "B"}
user == "u1"
\* a field that is absent from an object (JavaScript's undefined), and null
Undefined == "undefined"
Null == "null"
\* fileData of a document held in memory: the text or the preview image
Inline == [kind |-> "inline", path |-> 0, expiresIn |-> 0]
NoDoc == [id |-> 0, contentHash |-> "", file_path |-> 0, fileData |-> Inline,
          title |-> "", type |-> Undefined, eventDate |-> Undefined,
          expiryDate |-> Undefined, processedReminders |-> {}]
\* processFile's input and result before any file was handed to it
NoFile == [type |-> "", name |-> "", pages |-> <<>>, renders |-> TRUE,
           parses |-> TRUE, large |-> FALSE]
NotCalled == [status |-> "not called"]
Idle == [kind |-> "idle", pc |-> "done", entry |-> "", hash |-> "",
         publicUrl |-> 0, doc |-> NoDoc, id |-> 0,
         isDuplicate |-> FALSE, extraction |-> "",
         storageError |-> FALSE, before |-> [row |-> {}, rems |-> {}]]

VARIABLES
    dbDocs,          \* rows of table 'documents'
    dbRems,          \* rows of table 'reminders'
    storage,         \* object paths present in bucket 'documents'
    removeIssued,    \* object paths passed to storage.remove()
    documents,       \* React state: the session's document list
    manualReminders, \* React state: the session's manual reminders
    isUploading,     \* React state
    task,            \* the locals of handler invocation number t
    alert,           \* the text of the last window.alert(), "none" before any
    ops,             \* number of handler invocations so far (uuid source)
    faults,          \* number of backend calls that have failed so far
    originalFile,    \* the File handed to processFile
    processed,       \* what processFile(originalFile) came to
    icsContent,      \* the calendar files exported so far, oldest first
    reminderTime,    \* the field 'time' of each reminder, by reminder id
    history,         \* React state: the chat history shown by ChatAssistant
    localStorage,    \* the item 'nomadvault_chat' of window.localStorage
    isLoading        \* React state of ChatAssistant: a reply is awaited

\* the state of the session and of the backend
appVars == <<dbDocs, dbRems, storage, removeIssued, documents, manualReminders,
             isUploading, task, alert, ops, faults>>

\* the state of the client-side functions examined on their own
chatVars == <<history, localStorage, isLoading>>
clientVars == <<originalFile, processed, icsContent, reminderTime, history,
                localStorage, isLoading>>

vars == <<dbDocs, dbRems, storage, removeIssued, documents, manualReminders,
          isUploading, task, alert, ops, faults, originalFile, processed,
          icsContent, reminderTime, history, localStorage, isLoading>>

\* ---- pure helpers ----

\* SHA-256 of the file bytes, hex encoded: an injective map of the content.
calculateFileHash(c) ==
    CASE c = "A" -> "a1f0"
      [] c = "B" -> "b2e9"

\* rows of 'documents' matching .eq('user_id', u).eq('content_hash', h)
RowsByHash(u, h) == {r \in dbDocs : r.user_id = u /\ r.content_hash = h}

\* PostgREST .maybeSingle(): data is the row when exactly one row matches,
\* null when none matches, and null with error PGRST116 when several match.
maybeSingle(rows) ==
    IF Cardinality(rows) = 1 THEN [data |-> TRUE, error |-> "none"]
    ELSE IF rows = {} THEN [data |-> FALSE, error |-> "none"]
    ELSE [data |-> FALSE, error |-> "PGRST116"]

\* checkDocumentExistsByHash: qerr is a failed auth lookup or a failed query.
checkDocumentExistsByHash(h, qerr) ==
    IF qerr THEN FALSE
    ELSE LET res == maybeSingle(RowsByHash(user, h))
         IN IF res.error # "none" /\ res.error # "PGRST100" THEN FALSE
            ELSE res.data

\* doc.extractedData: the fields of the extraction result kept by the model
extractedData(doc) ==
    [title |-> doc.title, type |-> doc.type, eventDate |-> doc.eventDate,
     expiryDate |-> doc.expiryDate]

\* JSON.stringify of an object, as stored in a jsonb column: a key whose
\* value is undefined is dropped
ToJson(obj) == [k \in {x \in DOMAIN obj : obj[x] # Undefined} |-> obj[k]]

\* obj[k] of an object read back from JSON: undefined for a missing key
Field(obj, k) == IF k \in DOMAIN obj THEN obj[k] ELSE Undefined

\* JavaScript's `v || null` for a string or undefined v
OrNull(v) == IF v = Undefined \/ v = "" THEN Null ELSE v

\* JSON.stringify of an array of objects, and JSON.parse of such a string
JSONstringify(chat) == [k \in 1..Len(chat) |-> ToJson(chat[k])]
JSONparse(d) == d

\* localStorage before anything was stored under CHAT_KEY: getItem gives null
NoItem == [present |-> FALSE, value |-> <<>>]

\* saveChatHistory(chat): the item stored under CHAT_KEY
saveChatHistory(chat) == [present |-> TRUE, value |-> JSONstringify(chat)]

\* loadChatHistory(): the stored array, [] when there is none
loadChatHistory ==
    IF localStorage.present THEN JSONparse(localStorage.value) ELSE <<>>

\* the upsert payload without the dates in extracted_data
DocRow_DatesInColumnsOnly(doc) ==
    [id |-> doc.id, user_id |-> user, title |-> doc.title, type |-> doc.type,
     event_date |-> OrNull(doc.eventDate), expiry_date |-> OrNull(doc.expiryDate),
     extracted_data |-> ToJson([title |-> doc.title, type |-> doc.type]),
     file_path |-> doc.file_path, content_hash |-> doc.contentHash]

\* the row saveDocumentToSupabase upserts for a NomadDocument
DocRow(doc) ==
    [id |-> doc.id, user_id |-> user, title |-> doc.title, type |-> doc.type,
     event_date |-> OrNull(doc.eventDate), expiry_date |-> OrNull(doc.expiryDate),
     extracted_data |-> ToJson(extractedData(doc)),
     file_path |-> doc.file_path, content_hash |-> doc.contentHash]

\* .upsert(row): insert, or replace the row with the same primary key
Upsert(rows, row) == {r \in rows : r.id # row.id} \cup {row}

\* the reminder rows saveDocumentToSupabase inserts for a NomadDocument
remindersPayload(doc) ==
    {[id |-> r, document_id |-> doc.id, source |-> "document", user_id |-> user] :
        r \in doc.processedReminders}

\* reminders.document_id references documents.id
ForeignKeyOk(docs, rows) ==
    \A r \in rows : r.document_id = 0 \/ \E d \in docs : d.id = r.document_id

\* the primary key of 'reminders' is id
PrimaryKeyFree(rems, rows) == \A r \in rows : \A q \in rems : q.id # r.id

\* deleting a document row deletes the reminder rows that reference it
CascadeDelete(rems, id) == {r \in rems : r.document_id # id}

\* the reminders the extraction result yields, with fresh ids and docId
ProcessedReminders(docId, n) == {<<docId, k>> : k \in 1..n}

\* the part of the store that belongs to document id: its row and the
\* reminder rows that reference it (recorded when a save is called)
StoreOf(id) ==
    [row |-> {r \in dbDocs : r.id = id},
     rems |-> {r \in dbRems : r.document_id = id}]

\* ---- task bookkeeping ----
\* the invocations in flight
Running == {s \in TaskIds : task[s].pc # "done"}

\* Invocation number t can start: it is the next one, and the bounds on
\* events and on concurrent invocations leave room for it.
Free(t) ==
    /\ t = ops + 1
    /\ ops + faults < MaxEvents
    /\ Cardinality(Running) < MaxTasks

\* task t goes on as rec, nothing is shown to the user
Goto(t, rec) ==
    /\ task' = [task EXCEPT ![t] = rec]
    /\ UNCHANGED alert

\* task t returns and is no longer in flight; msg is the text it shows in
\* an alert on its way out ("none": it shows no alert)
Done(t, msg) ==
    /\ task' = [task EXCEPT ![t] = Idle]
    /\ alert' = IF msg = "none" THEN alert ELSE msg

\* a step in which a backend call fails (failed) uses up one of the
\* failures the environment may inject
Fault(failed) ==
    /\ failed => (faults < MaxFaults /\ ops + faults < MaxEvents)
    /\ faults' = IF failed THEN faults + 1 ELSE faults

Init ==
    /\ dbDocs = {}
    /\ dbRems = {}
    /\ storage = {}
    /\ removeIssued = {}
    /\ documents = {}
    /\ manualReminders = {}
    /\ isUploading = FALSE
    /\ task = [t \in TaskIds |-> Idle]
    /\ alert = "none"
    /\ ops = 0
    /\ faults = 0
    /\ originalFile = NoFile
    /\ processed = NotCalled
    /\ icsContent = <<>>
    /\ reminderTime = <<>>
    /\ history = <<>>
    /\ localStorage = saveChatHistory(<<>>)
    /\ isLoading = FALSE

\* ---- upload: UploadSection.handleFile, then Dashboard.handleFileChange ----

\* the file contents some row, local document or invocation refers to
ContentsInUse ==
    ({r.content_hash : r \in dbDocs} \cup {d.contentHash : d \in documents}
        \cup {task[s].hash : s \in TaskIds}
        \cup {task[s].doc.contentHash : s \in TaskIds}) \ {""}

\* handleFile up to its first backend call: the hash of the chosen file.
\* File contents are interchangeable, so while nothing refers to any
\* content the chosen file is called "A".
BeginUpload(t, c, e) ==
    /\ Free(t)
    /\ c # "A" => ContentsInUse # {}
    /\ ops' = ops + 1
    /\ Goto(t, [Idle EXCEPT !.kind = "upload", !.pc = "check",
                                    !.entry = e, !.hash = calculateFileHash(c),
                                    !.id = ops + 1])
    /\ UNCHANGED <<faults, dbDocs, dbRems, storage, removeIssued, documents,
                   manualReminders, isUploading>>
    /\ UNCHANGED clientVars

\* <input onChange={handleFile}>: the file picker, which the dropzone click
\* and the Add Document button of StatsHero open.
InputChange(t, c) == BeginUpload(t, c, "picker")

\* handleDrop: a synthetic change event handed to handleFile.
handleDrop(t, c) == BeginUpload(t, c, "drop")

\* handleFile without the early return after the duplicate alert
handleFile_NoReturn(t, qerr) ==
    /\ task[t].kind = "upload" /\ task[t].pc = "check"
    /\ Fault(qerr)
    /\ task' = [task EXCEPT ![t] = [task[t] EXCEPT !.pc = "process",
                  !.isDuplicate = checkDocumentExistsByHash(task[t].hash, qerr)]]
    /\ alert' = IF checkDocumentExistsByHash(task[t].hash, qerr)
                THEN "Duplicate Detected" ELSE alert
    /\ isUploading' = TRUE
    /\ UNCHANGED <<dbDocs, dbRems, storage, removeIssued, documents,
                   manualReminders, ops>>
    /\ UNCHANGED clientVars

\* handleFile after the duplicate check returned; on a negative result it
\* calls onFileChange, which runs up to processFile (setIsUploading(true)).
handleFile(t, qerr) ==
    /\ task[t].kind = "upload" /\ task[t].pc = "check"
    /\ Fault(qerr)
    /\ IF checkDocumentExistsByHash(task[t].hash, qerr)
       THEN /\ Done(t, "Duplicate Detected")
            /\ UNCHANGED isUploading
       ELSE /\ Goto(t, [task[t] EXCEPT !.pc = "process", !.entry = "",
                                          !.isDuplicate = FALSE])
            /\ isUploading' = TRUE
    /\ UNCHANGED <<dbDocs, dbRems, storage, removeIssued, documents,
                   manualReminders, ops>>
    /\ UNCHANGED clientVars

\* handleFileChange steps 1 and 2: processFile, then uploadFileToStorage,
\* which returns the new object's path, or null when the upload failed.
ProcessAndStore(t, perr, serr) ==
    /\ task[t].kind = "upload" /\ task[t].pc = "process"
    /\ Fault(perr \/ serr)
    /\ IF perr
       THEN /\ Done(t, "raw")
            /\ isUploading' = FALSE
            /\ UNCHANGED storage
       ELSE /\ storage' = IF serr THEN storage ELSE storage \cup {task[t].id}
            /\ Goto(t, [task[t] EXCEPT !.pc = "analyze",
                                    !.publicUrl = IF serr THEN 0 ELSE task[t].id])
            /\ UNCHANGED isUploading
    /\ UNCHANGED <<dbDocs, dbRems, removeIssued, documents, manualReminders, ops>>
    /\ UNCHANGED clientVars

\* analyzeDocument's outcome: "throw" (the call or JSON.parse failed),
\* "empty" (no response text: the result is parsed from "{}"), "ok".
analyzeDocument(out, n) ==
    CASE out = "throw" -> [failed |-> TRUE, title |-> Undefined, type |-> Undefined,
                           eventDate |-> Undefined, reminders |-> 0]
      [] out = "empty" -> [failed |-> FALSE, title |-> Undefined, type |-> Undefined,
                           eventDate |-> Undefined, reminders |-> 0]
      [] out = "ok" -> [failed |-> FALSE, title |-> "T1", type |-> "Ticket",
                        eventDate |-> "2025-03-01", reminders |-> n]

\* handleFileChange step 3: the extraction call and the assembly of newDoc.
Analyze(t, out, n) ==
    /\ task[t].kind = "upload" /\ task[t].pc = "analyze"
    /\ Fault(out # "ok")
    /\ LET res == analyzeDocument(out, n)
       IN IF res.failed
          THEN /\ Done(t, "raw")
               /\ isUploading' = FALSE
          ELSE /\ Goto(t, [task[t] EXCEPT !.pc = "save_upsert",
                     !.extraction = out, !.before = StoreOf(task[t].id),
                     !.doc = [id |-> task[t].id, contentHash |-> task[t].hash,
                                 file_path |-> task[t].publicUrl, fileData |-> Inline,
                                 title |-> res.title, type |-> res.type,
                                 eventDate |-> res.eventDate, expiryDate |-> Undefined,
                                 processedReminders |->
                                     ProcessedReminders(task[t].id, res.reminders)]])
               /\ UNCHANGED isUploading
    /\ UNCHANGED <<dbDocs, dbRems, storage, removeIssued, documents,
                   manualReminders, ops>>
    /\ UNCHANGED clientVars

\* ---- saveDocumentToSupabase, one awaited call per step ----

\* the alert each caller shows when saveDocumentToSupabase throws msg:
\* handleFileChange alerts err.message, handleSaveDoc alerts a fixed text,
\* handleDeleteReminder has no catch (the rejection is unhandled, no alert).
SaveThrows(t, msg) ==
    CASE task[t].kind = "upload" -> msg
      [] task[t].kind = "saveDoc" -> "Failed to save changes."
      [] task[t].kind = "delReminder" -> "none"

\* step 1, documents.upsert(...).select().single(); err is a missing
\* session or a backend error.
SaveUpsert(t, err) ==
    /\ task[t].pc = "save_upsert"
    /\ Fault(err)
    /\ IF err
       THEN /\ Done(t, SaveThrows(t, "Database Error: detail"))
            /\ isUploading' = IF task[t].kind = "upload" THEN FALSE ELSE isUploading
            /\ UNCHANGED dbDocs
       ELSE /\ dbDocs' = Upsert(dbDocs, DocRow(task[t].doc))
            /\ Goto(t, [task[t] EXCEPT !.pc =
                          IF task[t].doc.processedReminders # {}
                          THEN "save_delete" ELSE "save_return"])
            /\ UNCHANGED isUploading
    /\ UNCHANGED <<dbRems, storage, removeIssued, documents, manualReminders, ops>>
    /\ UNCHANGED clientVars

\* step 2a, reminders.delete().eq('document_id', doc.id); its error is not
\* looked at.
SaveDelete(t, err) ==
    /\ task[t].pc = "save_delete"
    /\ Fault(err)
    /\ dbRems' = IF err THEN dbRems
                 ELSE {r \in dbRems : r.document_id # task[t].doc.id}
    /\ Goto(t, [task[t] EXCEPT !.pc = "save_insert"])
    /\ UNCHANGED <<dbDocs, storage, removeIssued, documents, manualReminders,
                   isUploading, ops>>
    /\ UNCHANGED clientVars

\* step 2b, reminders.insert(remindersPayload)
SaveInsert(t, err) ==
    /\ task[t].pc = "save_insert"
    /\ Fault(err)
    /\ LET payload == remindersPayload(task[t].doc)
       IN IF err \/ ~PrimaryKeyFree(dbRems, payload) \/ ~ForeignKeyOk(dbDocs, payload)
          THEN /\ Done(t, SaveThrows(t, "Failed to save reminders: detail"))
               /\ isUploading' = IF task[t].kind = "upload" THEN FALSE ELSE isUploading
               /\ UNCHANGED dbRems
          ELSE /\ dbRems' = dbRems \cup payload
               /\ Goto(t, [task[t] EXCEPT !.pc = "save_return"])
               /\ UNCHANGED isUploading
    /\ UNCHANGED <<dbDocs, storage, removeIssued, documents, manualReminders, ops>>
    /\ UNCHANGED clientVars

\* the caller's code after `await saveDocumentToSupabase(...)`
SaveReturn(t) ==
    /\ task[t].pc = "save_return"
    /\ documents' =
         IF task[t].kind = "upload"
         THEN documents \cup {task[t].doc}
         ELSE {IF d.id = task[t].doc.id THEN task[t].doc ELSE d : d \in documents}
    /\ isUploading' = IF task[t].kind = "upload" THEN FALSE ELSE isUploading
    /\ Done(t, "none")
    /\ UNCHANGED <<faults, dbDocs, dbRems, storage, removeIssued, manualReminders, ops>>
    /\ UNCHANGED clientVars

\* ---- handleSaveDoc: the Save button of EditDocumentModal ----
handleSaveDoc(t, d, title) ==
    /\ Free(t)
    /\ d \in documents
    /\ ops' = ops + 1
    /\ Goto(t, [Idle EXCEPT !.kind = "saveDoc",
                     !.pc = "save_upsert", !.id = d.id, !.before = StoreOf(d.id),
                     !.doc = [d EXCEPT !.title = title]])
    /\ UNCHANGED <<faults, dbDocs, dbRems, storage, removeIssued, documents,
                   manualReminders, isUploading>>
    /\ UNCHANGED clientVars

\* ---- handleDeleteReminder, the branch for a document's reminder ----
handleDeleteReminder(t, d, r) ==
    /\ Free(t)
    /\ d \in documents /\ r \in d.processedReminders
    /\ ops' = ops + 1
    /\ Goto(t, [Idle EXCEPT !.kind = "delReminder",
                     !.pc = "save_upsert", !.id = d.id, !.before = StoreOf(d.id),
                     !.doc = [d EXCEPT !.processedReminders = @ \ {r}]])
    /\ UNCHANGED <<faults, dbDocs, dbRems, storage, removeIssued, documents,
                   manualReminders, isUploading>>
    /\ UNCHANGED clientVars

\* ---- handleDeleteDoc and deleteDocumentFromSupabase ----
handleDeleteDoc(t, d) ==
    /\ Free(t)
    /\ d \in documents
    /\ ops' = ops + 1
    /\ Goto(t, [Idle EXCEPT !.kind = "deleteDoc",
                                    !.pc = "del_storage", !.id = d.id])
    /\ UNCHANGED <<faults, dbDocs, dbRems, storage, removeIssued, documents,
                   manualReminders, isUploading>>
    /\ UNCHANGED clientVars

\* the stored file_path of document id, 0 when there is no row or no path
StoredPath(id) ==
    IF \E r \in dbDocs : r.id = id /\ r.file_path # 0
    THEN (CHOOSE r \in dbDocs : r.id = id /\ r.file_path # 0).file_path
    ELSE 0

\* whether the object is gone after the direct remove (f1: it errors) and,
\* if that removed nothing, the listing (fl: it errors) and the retry (f2)
StorageRemoved(path, f1, fl, f2) ==
    /\ path \in storage
    /\ \/ ~f1
       \/ ~fl /\ ~f2

\* the value of storageError after both attempts
StorageErrorLeft(path, f1, fl, f2) ==
    f1 /\ ~(~fl /\ path \in storage /\ ~f2)

\* deleteDocumentFromSupabase throwing when storageError is left set
DeleteStorageObject_Throws(t, f1, fl, f2) ==
    /\ task[t].pc = "del_storage"
    /\ Fault(f1 \/ fl \/ f2)
    /\ LET path == StoredPath(task[t].id)
       IN IF path = 0
          THEN /\ Goto(t, [task[t] EXCEPT !.pc = "del_db"])
               /\ UNCHANGED <<storage, removeIssued>>
          ELSE /\ removeIssued' = removeIssued \cup {path}
               /\ storage' = IF StorageRemoved(path, f1, fl, f2)
                             THEN storage \ {path} ELSE storage
               /\ IF StorageErrorLeft(path, f1, fl, f2)
                  THEN Done(t, "Failed to delete document: storage")
                  ELSE Goto(t, [task[t] EXCEPT !.pc = "del_db"])
    /\ UNCHANGED <<dbDocs, dbRems, documents, manualReminders, isUploading, ops>>
    /\ UNCHANGED clientVars

\* deleteDocumentFromSupabase up to the database delete: the select of
\* file_path and the removal of the storage object.
DeleteStorageObject(t, f1, fl, f2) ==
    /\ task[t].pc = "del_storage"
    /\ Fault(f1 \/ fl \/ f2)
    /\ LET path == StoredPath(task[t].id)
       IN IF path = 0
          THEN /\ Goto(t, [task[t] EXCEPT !.pc = "del_db"])
               /\ UNCHANGED <<storage, removeIssued>>
          ELSE /\ removeIssued' = removeIssued \cup {path}
               /\ storage' = IF StorageRemoved(path, f1, fl, f2)
                             THEN storage \ {path} ELSE storage
               /\ Goto(t, [task[t] EXCEPT !.pc = "del_db",
                              !.storageError = StorageErrorLeft(path, f1, fl, f2)])
    /\ UNCHANGED <<dbDocs, dbRems, documents, manualReminders, isUploading, ops>>
    /\ UNCHANGED clientVars

\* documents.delete().eq('id', id)
DeleteRow(t, err) ==
    /\ task[t].pc = "del_db"
    /\ Fault(err)
    /\ IF err
       THEN /\ Done(t, "Failed to delete document: Database delete failed: detail")
            /\ UNCHANGED <<dbDocs, dbRems>>
       ELSE /\ dbDocs' = {r \in dbDocs : r.id # task[t].id}
            /\ dbRems' = CascadeDelete(dbRems, task[t].id)
            /\ Goto(t, [task[t] EXCEPT !.pc = "del_return"])
    /\ UNCHANGED <<storage, removeIssued, documents, manualReminders, isUploading, ops>>
    /\ UNCHANGED clientVars

\* handleDeleteDoc leaving the local list as it is
DeleteReturn_KeepsLocal(t) ==
    /\ task[t].pc = "del_return"
    /\ Done(t, "none")
    /\ UNCHANGED <<faults, dbDocs, dbRems, storage, removeIssued, documents,
                   manualReminders, isUploading, ops>>
    /\ UNCHANGED clientVars

\* handleDeleteDoc after `await deleteDocumentFromSupabase(id)`
DeleteReturn(t) ==
    /\ task[t].pc = "del_return"
    /\ documents' = {d \in documents : d.id # task[t].id}
    /\ Done(t, "none")
    /\ UNCHANGED <<faults, dbDocs, dbRems, storage, removeIssued, manualReminders,
                   isUploading, ops>>
    /\ UNCHANGED clientVars

\* ---- handleAddReminder and saveManualReminderToSupabase ----
handleAddReminder(t) ==
    /\ Free(t)
    /\ ops' = ops + 1
    /\ Goto(t, [Idle EXCEPT !.kind = "addReminder",
                                    !.pc = "save_manual", !.id = ops + 1])
    /\ UNCHANGED <<faults, dbDocs, dbRems, storage, removeIssued, documents,
                   manualReminders, isUploading>>
    /\ UNCHANGED clientVars

\* reminders.upsert({...reminder, user_id}); an error is only logged, and
\* the handler then appends the reminder to manualReminders.
SaveManualReminder(t, err) ==
    /\ task[t].pc = "save_manual"
    /\ Fault(err)
    /\ LET rid == <<0, task[t].id>>
       IN /\ dbRems' = IF err THEN dbRems
                       ELSE dbRems \cup {[id |-> rid, document_id |-> 0,
                                          source |-> "manual", user_id |-> user]}
          /\ manualReminders' = manualReminders \cup {rid}
    /\ Done(t, "none")
    /\ UNCHANGED <<dbDocs, storage, removeIssued, documents, isUploading, ops>>
    /\ UNCHANGED clientVars

\* ---- page load: AuthenticatedApp.fetchData ----

\* file_path values that are full URLs (file_path.startsWith('http')): rows
\* written before files went to the private bucket
HttpPaths == {900}

\* storage.createSignedUrl(path, expiresIn)
createSignedUrl(path, expiresIn) ==
    [kind |-> "signedUrl", path |-> path, expiresIn |-> expiresIn]

\* fileUrl of a loaded row: the stored file_path as it is, or, for a storage
\* path, the URL signed for 3600 seconds
fileUrl(path) ==
    IF path # 0 /\ path \notin HttpPaths THEN createSignedUrl(path, 3600)
    ELSE [kind |-> "plain", path |-> path, expiresIn |-> 0]

\* the select `*, reminders (*)`: the reminder rows embedded in row r
EmbeddedReminders(r) == {x \in dbRems : x.document_id = r.id}

\* the reminders of a loaded row, each with its id and docId
LoadedReminders(r) == {[id |-> q.id, docId |-> r.id] : q \in EmbeddedReminders(r)}

\* loadDocumentsFromSupabase without .eq('user_id', user.id)
loadDocumentsFromSupabase_AllRows(err) ==
    IF err THEN {}
    ELSE {[id |-> r.id, contentHash |-> r.content_hash, file_path |-> 0,
           fileData |-> fileUrl(r.file_path),
           title |-> Field(r.extracted_data, "title"),
           type |-> Field(r.extracted_data, "type"),
           eventDate |-> Field(r.extracted_data, "eventDate"),
           expiryDate |-> Field(r.extracted_data, "expiryDate"),
           processedReminders |-> {q.id : q \in LoadedReminders(r)}] :
            r \in dbDocs}

\* loadDocumentsFromSupabase: the user's rows with their reminders embedded;
\* the returned objects carry fileData (a signed URL) but no file_path.
loadDocumentsFromSupabase(err) ==
    IF err THEN {}
    ELSE {[id |-> r.id, contentHash |-> r.content_hash, file_path |-> 0,
           fileData |-> fileUrl(r.file_path),
           title |-> Field(r.extracted_data, "title"),
           type |-> Field(r.extracted_data, "type"),
           eventDate |-> Field(r.extracted_data, "eventDate"),
           expiryDate |-> Field(r.extracted_data, "expiryDate"),
           processedReminders |-> {q.id : q \in LoadedReminders(r)}] :
            r \in {x \in dbDocs : x.user_id = user}}

loadManualRemindersFromSupabase(err) ==
    IF err THEN {}
    ELSE {q.id : q \in {x \in dbRems : x.source = "manual" /\ x.user_id = user}}

\* a reload of the page: no handler of the old page survives it
fetchData(derr, rerr) ==
    /\ \A t \in TaskIds : task[t].pc = "done"
    /\ Fault(derr \/ rerr)
    /\ documents' = loadDocumentsFromSupabase(derr)
    /\ manualReminders' = loadManualRemindersFromSupabase(rerr)
    /\ isUploading' = FALSE
    /\ history' = loadChatHistory
    /\ localStorage' = saveChatHistory(history')
    /\ isLoading' = FALSE
    /\ UNCHANGED <<dbDocs, dbRems, storage, removeIssued, task, alert, ops>>
    /\ UNCHANGED <<originalFile, processed, icsContent, reminderTime>>

Next ==
    \/ \E t \in TaskIds, c \in Contents : InputChange(t, c)
    \/ \E t \in TaskIds, c \in Contents : handleDrop(t, c)
    \/ \E t \in TaskIds, qerr \in BOOLEAN : handleFile(t, qerr)
    \/ \E t \in TaskIds, perr \in BOOLEAN, serr \in BOOLEAN : ProcessAndStore(t, perr, serr)
    \/ \E t \in TaskIds, out \in {"throw", "empty", "ok"}, n \in 0..MaxRems : Analyze(t, out, n)
    \/ \E t \in TaskIds, err \in BOOLEAN : SaveUpsert(t, err)
    \/ \E t \in TaskIds, err \in BOOLEAN : SaveDelete(t, err)
    \/ \E t \in TaskIds, err \in BOOLEAN : SaveInsert(t, err)
    \/ \E t \in TaskIds : SaveReturn(t)
    \/ \E t \in TaskIds, d \in documents : handleSaveDoc(t, d, "T2")
    \/ \E t \in TaskIds, d \in documents : \E r \in d.processedReminders :
          handleDeleteReminder(t, d, r)
    \/ \E t \in TaskIds, d \in documents : handleDeleteDoc(t, d)
    \/ \E t \in TaskIds, f1 \in BOOLEAN, fl \in BOOLEAN, f2 \in BOOLEAN :
          DeleteStorageObject(t, f1, fl, f2)
    \/ \E t \in TaskIds, err \in BOOLEAN : DeleteRow(t, err)
    \/ \E t \in TaskIds : DeleteReturn(t)
    \/ \E t \in TaskIds : handleAddReminder(t)
    \/ \E t \in TaskIds, err \in BOOLEAN : SaveManualReminder(t, err)
    \/ \E derr \in BOOLEAN, rerr \in BOOLEAN : fetchData(derr, rerr)

Spec == Init /\ [][Next]_vars

\* the same handlers against a backend none of whose calls fails
NextReliable ==
    \/ \E t \in TaskIds, c \in Contents : InputChange(t, c)
    \/ \E t \in TaskIds, c \in Contents : handleDrop(t, c)
    \/ \E t \in TaskIds : handleFile(t, FALSE)
    \/ \E t \in TaskIds : ProcessAndStore(t, FALSE, FALSE)
    \/ \E t \in TaskIds, n \in 0..MaxRems : Analyze(t, "ok", n)
    \/ \E t \in TaskIds : SaveUpsert(t, FALSE)
    \/ \E t \in TaskIds : SaveDelete(t, FALSE)
    \/ \E t \in TaskIds : SaveInsert(t, FALSE)
    \/ \E t \in TaskIds : SaveReturn(t)
    \/ \E t \in TaskIds, d \in documents : handleSaveDoc(t, d, "T2")
    \/ \E t \in TaskIds, d \in documents : \E r \in d.processedReminders :
          handleDeleteReminder(t, d, r)
    \/ \E t \in TaskIds, d \in documents : handleDeleteDoc(t, d)
    \/ \E t \in TaskIds : DeleteStorageObject(t, FALSE, FALSE, FALSE)
    \/ \E t \in TaskIds : DeleteRow(t, FALSE)
    \/ \E t \in TaskIds : DeleteReturn(t)
    \/ \E t \in TaskIds : handleAddReminder(t)
    \/ \E t \in TaskIds : SaveManualReminder(t, FALSE)
    \/ fetchData(FALSE, FALSE)
SpecReliable == Init /\ [][NextReliable]_vars
\* ---- properties ----

\* the step in which task t leaves program point p
Leaves(t, p) == task[t].pc = p /\ task'[t].pc # p

\* the step in which task t returns
Returns(t) == task[t].pc # "done" /\ task'[t].pc = "done"

\* C1: for one user, when an upload of some content has completed (its row
\* with content_hash is in the store) before another upload of the same
\* content reaches the duplicate check, that upload is rejected as a
\* duplicate: the check returns true and the upload ends there.
C1_SecondUploadRejected ==
    [][\A t \in TaskIds :
         (Leaves(t, "check") /\ RowsByHash(user, task[t].hash) # {})
            => /\ Returns(t)
               /\ alert' = "Duplicate Detected"]_vars

\* C2: whenever the duplicate check returned true for an upload, the upload
\* stopped there: it wrote no storage object, did not call the extraction
\* service, wrote no document or reminder row, and the user got the
\* duplicate message; this holds for the picker and for drag-and-drop.
\* (No upload is past its check with a positive result, and every upload
\* leaves the check either going on after a negative result or returning,
\* before the storage and extraction calls, with the duplicate alert and
\* nothing written.)
C2_DuplicateStopsUpload ==
    /\ [](\A t \in TaskIds : ~task[t].isDuplicate)
    /\ [][\A t \in TaskIds :
            (Leaves(t, "check") /\ task[t].entry \in {"picker", "drop"})
               => \/ /\ task'[t].pc = "process"
                     /\ ~task'[t].isDuplicate
                     /\ alert' = alert
                  \/ /\ Returns(t)
                     /\ alert' = "Duplicate Detected"
                     /\ UNCHANGED <<dbDocs, dbRems, storage, documents>>]_vars

\* an upload was stopped with the duplicate alert while the document it
\* duplicates is stored, and nothing but that document is in the store
C2_Witness ==
    /\ alert = "Duplicate Detected"
    /\ Running = {}
    /\ Cardinality(dbDocs) = 1 /\ Cardinality(storage) = 1
    /\ \E d \in documents : \E r \in dbDocs : r.id = d.id /\ r.content_hash = d.contentHash

\* C3: in every reachable state no two document rows of one user have the
\* same content_hash.
C3_UniqueHashPerUser ==
    \A r1, r2 \in dbDocs :
        (r1.user_id = r2.user_id /\ r1.content_hash = r2.content_hash
            /\ r1.content_hash # "") => r1.id = r2.id

\* C4: checkDocumentExistsByHash(hash) returns true if and only if at least
\* one row of the current user has that content_hash, however many there are.
C4_CheckIffRowExists ==
    [][\A t \in TaskIds :
         Leaves(t, "check") =>
            (Returns(t) <=> RowsByHash(user, task[t].hash) # {})]_vars

\* C5: when saveDocumentToSupabase(doc) returns successfully, the reminder
\* rows with document_id = doc.id are exactly doc.processedReminders, also
\* when that set is empty.
C5_RemindersReplaced ==
    [][\A t \in TaskIds :
         (task[t].pc \in {"save_upsert", "save_insert"} /\ task'[t].pc = "save_return")
            => {r \in dbRems' : r.document_id = task[t].doc.id}
                    = remindersPayload(task[t].doc)]_vars

\* C6: saveDocumentToSupabase is all-or-nothing: when it fails at any step,
\* the document's row and its reminder rows are as they were when it was
\* called.
C6_SaveAllOrNothing ==
    [][\A t \in TaskIds :
         (task[t].pc \in {"save_upsert", "save_delete", "save_insert"} /\ Returns(t))
            => /\ {r \in dbDocs' : r.id = task[t].doc.id} = task[t].before.row
               /\ {r \in dbRems' : r.document_id = task[t].doc.id}
                      = task[t].before.rems]_vars

\* the reminder list shown to the user (allReminders of Dashboard)
allReminders == manualReminders \cup UNION {d.processedReminders : d \in documents}

\* the manual reminder rows of the store
ManualRows == {r \in dbRems : r.source = "manual"}

\* C7: every reminder row with source 'document' has an existing parent
\* document row; deleting a document removes the reminder rows whose parent
\* it is from the store, leaves the manual reminder rows unchanged, and once
\* the handler returns the document's reminders are gone from the list shown
\* to the user while the manual reminders in it are unchanged.
C7_RemindersFollowParent ==
    /\ [](\A r \in dbRems :
            r.source = "document" => \E d \in dbDocs : d.id = r.document_id)
    /\ [][\A t \in TaskIds :
            (task[t].pc = "del_db" /\ task'[t].pc = "del_return")
               => /\ \A r \in dbRems' : r.document_id # task[t].id
                  /\ ManualRows' = ManualRows]_vars
    /\ [][\A t \in TaskIds :
            Leaves(t, "del_return")
               => /\ \A r \in allReminders' : r[1] # task[t].id
                  /\ manualReminders' = manualReminders
                  /\ manualReminders' \subseteq allReminders']_vars

\* the row of a document with a reminder has just been deleted while a
\* manual reminder exists: the document's reminder rows are gone, the
\* manual reminder is still stored and shown
C7_Witness ==
    \E t \in TaskIds :
        /\ task[t].kind = "deleteDoc" /\ task[t].pc = "del_return"
        /\ \E d \in documents : d.id = task[t].id /\ d.processedReminders # {}
        /\ \A r \in dbRems : r.document_id # task[t].id
        /\ ManualRows # {}
        /\ manualReminders # {}

\* C8: for every document stored with a storage object, deleting the
\* document issues a removal of that object, whatever happened between the
\* upload and the deletion.  (Upload n stores document n under path n.)
C8_DeleteRemovesObject ==
    [][\A t \in TaskIds :
         (Leaves(t, "del_storage") /\ task[t].id \in storage
             /\ \E r \in dbDocs : r.id = task[t].id)
            => task[t].id \in removeIssued']_vars

\* the alert handleDeleteDoc shows when the database delete failed
DbDeleteAlert == "Failed to delete document: Database delete failed: detail"

\* C9: when the removal of the storage object failed (the direct removal and
\* the retry), deleteDocumentFromSupabase still deletes the document row, so
\* that a later load does not return it, handleDeleteDoc then drops the
\* document from the local list, and the user gets no alert about it (the
\* only alert the handler can end with is that of a failed database delete).
C9_StorageFailureDoesNotBlock ==
    /\ [](\A t \in TaskIds :
            task[t].storageError => task[t].pc \in {"del_db", "del_return"})
    /\ [][\A t \in TaskIds :
            Leaves(t, "del_storage")
               => task'[t].pc = "del_db" /\ alert' = alert]_vars
    /\ [][\A t \in TaskIds :
            (task[t].storageError /\ Leaves(t, "del_db"))
               => \/ /\ task'[t].pc = "del_return"
                     /\ alert' = alert
                     /\ \A r \in dbDocs' : r.id # task[t].id
                     /\ \A d \in loadDocumentsFromSupabase(FALSE)' : d.id # task[t].id
                  \/ /\ Returns(t)
                     /\ alert' = DbDeleteAlert
                     /\ faults' = faults + 1]_vars
    /\ [][\A t \in TaskIds :
            (task[t].storageError /\ Leaves(t, "del_return"))
               => /\ Returns(t)
                  /\ alert' = alert
                  /\ \A d \in documents' : d.id # task[t].id]_vars

\* the removal of a document's storage object has failed and its row has
\* been deleted all the same: the object is still stored, the row is gone,
\* no alert has been shown
C9_Witness ==
    \E t \in TaskIds :
        /\ task[t].kind = "deleteDoc" /\ task[t].pc = "del_return"
        /\ task[t].storageError
        /\ task[t].id \in storage /\ task[t].id \in removeIssued
        /\ \A r \in dbDocs : r.id # task[t].id
        /\ alert = "none"

\* C10: any failure of the extraction call (it throws, the response is
\* empty or lacks schema fields) makes analyzeDocument fail, and then
\* handleFileChange ends with an alert, having written no document row and
\* no reminder row and leaving the local list unchanged.
\* (No upload is past the extraction with a failed extraction, and an
\* upload whose extraction did not succeed returns with an alert.)
C10_ExtractionFailureWritesNothing ==
    /\ [](\A t \in TaskIds : task[t].extraction \in {"", "ok"})
    /\ [][\A t \in TaskIds :
            Leaves(t, "analyze")
               => \/ task'[t].pc = "save_upsert" /\ task'[t].extraction = "ok"
                  \/ /\ Returns(t)
                     /\ alert' # "none"
                     /\ UNCHANGED <<dbDocs, dbRems, documents>>]_vars

\* ---- a store shared with a second user ----

\* a second user of the same backend
other == "u2"

\* a document of the other user: the same bytes as content "A", one reminder
ForeignDoc ==
    [NoDoc EXCEPT !.id = 100, !.contentHash = calculateFileHash("A"),
                  !.file_path = 100, !.title = "T1", !.type = "Visa",
                  !.processedReminders = {<<100, 1>>}]

\* a document of the session's user stored with a full URL as file_path
LegacyDoc ==
    [NoDoc EXCEPT !.id = 50, !.file_path = 900, !.title = "T1",
                  !.type = "Ticket", !.eventDate = "2025-03-01"]

\* the page has just loaded from a store that also holds the other user's
\* document, its reminder and a manual reminder of the other user
InitShared ==
    /\ dbDocs = {[DocRow(ForeignDoc) EXCEPT !.user_id = other], DocRow(LegacyDoc)}
    /\ dbRems = {[id |-> <<100, 1>>, document_id |-> 100, source |-> "document",
                  user_id |-> other],
                 [id |-> <<0, 100>>, document_id |-> 0, source |-> "manual",
                  user_id |-> other]}
    /\ storage = {100, 900}
    /\ removeIssued = {}
    /\ documents = loadDocumentsFromSupabase(FALSE)
    /\ manualReminders = loadManualRemindersFromSupabase(FALSE)
    /\ isUploading = FALSE
    /\ task = [t \in TaskIds |-> Idle]
    /\ alert = "none"
    /\ ops = 0
    /\ faults = 0
    /\ originalFile = NoFile
    /\ processed = NotCalled
    /\ icsContent = <<>>
    /\ reminderTime = <<>>
    /\ history = <<>>
    /\ localStorage = saveChatHistory(<<>>)
    /\ isLoading = FALSE

\* deleteDocumentFromSupabase(id) entered with any id, not only the id of a
\* document of the session's list: up to its first backend call
deleteDocumentFromSupabase(t, id) ==
    /\ Free(t)
    /\ ops' = ops + 1
    /\ Goto(t, [Idle EXCEPT !.kind = "deleteDoc", !.pc = "del_storage", !.id = id])
    /\ UNCHANGED <<faults, dbDocs, dbRems, storage, removeIssued, documents,
                   manualReminders, isUploading>>
    /\ UNCHANGED clientVars

\* deleteReminderFromSupabase(id): reminders.delete().eq('id', id)
deleteReminderFromSupabase(t, id) ==
    /\ Free(t)
    /\ ops' = ops + 1
    /\ dbRems' = {r \in dbRems : r.id # id}
    /\ UNCHANGED <<faults, dbDocs, storage, removeIssued, documents,
                   manualReminders, isUploading, task, alert>>
    /\ UNCHANGED clientVars

\* the handlers, and the two gateway deletes called with any stored id
NextGateway ==
    \/ NextReliable
    \/ \E t \in TaskIds, id \in {r.id : r \in dbDocs} : deleteDocumentFromSupabase(t, id)
    \/ \E t \in TaskIds, id \in {r.id : r \in dbRems} : deleteReminderFromSupabase(t, id)

SpecGateway == InitShared /\ [][NextGateway]_vars

\* the rows owned by the other user
ForeignDocs == {r \in dbDocs : r.user_id = other}
ForeignRems == {r \in dbRems : r.user_id = other}

StoredDocs ==
    {[owner |-> c[1],
      doc |-> [NoDoc EXCEPT !.id = c[2], !.file_path = c[3], !.title = "T1",
                            !.contentHash = calculateFileHash("A"),
                            !.type = "Ticket",
                            !.processedReminders = ProcessedReminders(c[2], n)]] :
        c \in {<<user, 1, 1>>, <<user, 50, 900>>, <<user, 2, 0>>, <<other, 100, 100>>},
        n \in 0..MaxRems}

\* the rows saveDocumentToSupabase wrote for stored document c in the
\* session of its owner
RowOf(c) == [DocRow(c.doc) EXCEPT !.user_id = c.owner]
ReminderRowsOf(c) == {[r EXCEPT !.user_id = c.owner] : r \in remindersPayload(c.doc)}

\* the manual reminder saveManualReminderToSupabase wrote for user u
ManualRowOf(u) ==
    [id |-> <<0, IF u = user THEN 1 ELSE 100>>, document_id |-> 0,
     source |-> "manual", user_id |-> u]

\* a freshly opened session on any such store
InitLoad ==
    /\ \E S \in SUBSET StoredDocs, M \in SUBSET {user, other} :
          /\ \A c1, c2 \in S : c1.doc.id = c2.doc.id => c1 = c2
          /\ dbDocs = {RowOf(c) : c \in S}
          /\ dbRems = UNION {ReminderRowsOf(c) : c \in S} \cup {ManualRowOf(u) : u \in M}
          /\ storage = {c.doc.file_path : c \in S} \ ({0} \cup HttpPaths)
    /\ removeIssued = {}
    /\ documents = {}
    /\ manualReminders = {}
    /\ isUploading = FALSE
    /\ task = [t \in TaskIds |-> Idle]
    /\ alert = "none"
    /\ ops = 0
    /\ faults = 0
    /\ originalFile = NoFile
    /\ processed = NotCalled
    /\ icsContent = <<>>
    /\ reminderTime = <<>>
    /\ history = <<>>
    /\ localStorage = saveChatHistory(<<>>)
    /\ isLoading = FALSE

\* the initial load of the page
NextLoad == fetchData(FALSE, FALSE)

SpecLoad == InitLoad /\ [][NextLoad]_vars

\* the document rows owned by the session's user
OwnDocs == {r \in dbDocs : r.user_id = user}

DateValues == {Undefined, "", "2025-03-01"}

\* the documents handed to saveDocumentToSupabase: document 1, stored under
\* path 1, with any title, category and dates and up to MaxRems reminders
WrittenDocs ==
    {[NoDoc EXCEPT !.id = 1, !.contentHash = calculateFileHash("A"),
                   !.file_path = 1, !.title = ti, !.type = ty, !.eventDate = ev,
                   !.expiryDate = ex,
                   !.processedReminders = ProcessedReminders(1, n)] :
        ti \in {"T1", "T2"}, ty \in {"Ticket", "Visa"}, ev \in DateValues,
        ex \in DateValues, n \in 0..MaxRems}

\* upload 1 has stored its file, assembled newDoc from the extraction result
\* and is about to call saveDocumentToSupabase(newDoc)
InitRoundTrip ==
    /\ dbDocs = {}
    /\ dbRems = {}
    /\ storage = {1}
    /\ removeIssued = {}
    /\ documents = {}
    /\ manualReminders = {}
    /\ isUploading = TRUE
    /\ \E d \in WrittenDocs :
          task = [t \in TaskIds |->
                    IF t = 1
                    THEN [Idle EXCEPT !.kind = "upload", !.pc = "save_upsert",
                                      !.hash = d.contentHash, !.publicUrl = 1,
                                      !.id = 1, !.extraction = "ok", !.doc = d]
                    ELSE Idle]
    /\ alert = "none"
    /\ ops = 1
    /\ faults = 0
    /\ originalFile = NoFile
    /\ processed = NotCalled
    /\ icsContent = <<>>
    /\ reminderTime = <<>>
    /\ history = <<>>
    /\ localStorage = saveChatHistory(<<>>)
    /\ isLoading = FALSE

\* the save, step by step, then a reload of the page
NextRoundTrip ==
    \/ \E t \in TaskIds : SaveUpsert(t, FALSE)
    \/ \E t \in TaskIds : SaveDelete(t, FALSE)
    \/ \E t \in TaskIds : SaveInsert(t, FALSE)
    \/ \E t \in TaskIds : SaveReturn(t)
    \/ fetchData(FALSE, FALSE)

SpecRoundTrip == InitRoundTrip /\ [][NextRoundTrip]_vars

\* document e has the id, category, title and dates of document d
SameFields(d, e) ==
    /\ e.id = d.id
    /\ e.type = d.type
    /\ e.title = d.title
    /\ e.eventDate = d.eventDate
    /\ e.expiryDate = d.expiryDate

\* C13: when saveDocumentToSupabase(doc) has returned, a load returns a
\* document with doc's id whose category, title, eventDate and expiryDate
\* equal those of doc, whether the dates are present, empty or absent; the
\* same holds for the document the handler then puts into the local list.
C13_RoundTrip ==
    /\ \A t \in TaskIds :
          task[t].pc = "save_return"
             => \E e \in loadDocumentsFromSupabase(FALSE) : SameFields(task[t].doc, e)
    /\ Running = {}
          => \A d \in documents :
                \E e \in loadDocumentsFromSupabase(FALSE) : SameFields(d, e)

\* the page was reloaded after the save of a document without eventDate
\* and with an expiryDate: the list holds the loaded document
C13_Witness ==
    /\ Running = {}
    /\ documents = loadDocumentsFromSupabase(FALSE)
    /\ \E d \in documents :
          /\ d.fileData.kind = "signedUrl"
          /\ d.eventDate = Undefined
          /\ d.expiryDate = "2025-03-01"
          /\ d.processedReminders # {}

\* ---- processFile ----

\* The text layer of a PDF page, as page.getTextContent() joined with ' ':
\* lead whitespace characters followed by ink characters, the first and the
\* last of which are not whitespace (ink = 0: the page has no text).
PageTexts ==
    {[lead |-> 0, ink |-> 0], [lead |-> 0, ink |-> 9],
     [lead |-> 1, ink |-> 49], [lead |-> 0, ink |-> 50]}

\* the sequences over S of length 1..n
RECURSIVE SeqsUpTo(_, _)
SeqsUpTo(S, n) ==
    IF n = 0 THEN {}
    ELSE LET shorter == SeqsUpTo(S, n - 1)
         IN {<<x>> : x \in S} \cup shorter
               \cup {Append(q, x) : q \in {r \in shorter : Len(r) = n - 1}, x \in S}

\* The files a user can pick or drop.  renders: pdf.js loads the PDF and
\* renders page 1 to a canvas without throwing (for an image: the browser
\* decodes it and the canvas yields a blob); parses: pdf.js reads the
\* text layer (mammoth reads the .docx) without throwing; large: the file
\* is bigger than 1 MiB.
Files ==
    {[type |-> "application/pdf", name |-> "a.pdf", pages |-> ps,
      renders |-> r, parses |-> x, large |-> FALSE] :
        ps \in SeqsUpTo(PageTexts, MaxPages), r \in BOOLEAN, x \in BOOLEAN}
    \cup {[type |-> f[1], name |-> f[2], pages |-> <<>>, renders |-> TRUE,
           parses |-> x, large |-> FALSE] :
        f \in {<<"image/png", "a.png">>, <<"text/plain", "a.txt">>,
                <<"application/vnd.openxmlformats-officedocument.wordprocessingml.document",
                  "a.docx">>,
                <<"application/msword", "a.doc">>, <<"application/zip", "a.zip">>,
                <<"video/mp4", "a.mp4">>},
        x \in BOOLEAN}
    \cup {[type |-> f[1], name |-> f[2], pages |-> <<>>, renders |-> r,
           parses |-> TRUE, large |-> l] :
        f \in {<<"image/png", "a.png">>, <<"image/jpeg", "a.jpg">>},
        r \in BOOLEAN, l \in BOOLEAN}

\* the length of fullText: every scanned page followed by '\n'
RECURSIVE FullLength(_)
FullLength(ps) ==
    IF ps = <<>> THEN 0
    ELSE Head(ps).lead + Head(ps).ink + 1 + FullLength(Tail(ps))

\* the number of whitespace characters fullText starts with
RECURSIVE LeadingSpace(_)
LeadingSpace(ps) ==
    IF ps = <<>> THEN 0
    ELSE IF Head(ps).ink > 0 THEN Head(ps).lead
    ELSE Head(ps).lead + 1 + LeadingSpace(Tail(ps))

\* the number of whitespace characters fullText ends with
RECURSIVE TrailingSpace(_)
TrailingSpace(ps) ==
    IF ps = <<>> THEN 0
    ELSE IF ps[Len(ps)].ink > 0 THEN 1
    ELSE ps[Len(ps)].lead + 1 + TrailingSpace(SubSeq(ps, 1, Len(ps) - 1))

\* fullText.trim().length
TrimmedLength(ps) ==
    IF \A i \in 1..Len(ps) : ps[i].ink = 0 THEN 0
    ELSE FullLength(ps) - LeadingSpace(ps) - TrailingSpace(ps)

\* the pages extractTextFromPDF scans: the first Math.min(numPages, 5)
ScannedPages(file) ==
    SubSeq(file.pages, 1, IF Len(file.pages) < 5 THEN Len(file.pages) ELSE 5)

\* the values of `content`: text, the base64 payload of a data URL, or ''
Text(ps) == [text |-> ps, base64 |-> ""]
Base64(b) == [text |-> <<>>, base64 |-> b]
Empty == [text |-> <<>>, base64 |-> ""]

\* a data URL 'data:<mime>;base64,<payload>' split at its comma, '' as <<>>
DataUrl(mime, payload) == <<mime, payload>>

\* what a helper yields in place of a value when it throws
Thrown == <<"thrown">>

\* extractTextFromPDF comparing the untrimmed length with the threshold
extractTextFromPDF_Untrimmed(file) ==
    IF ~file.parses THEN <<>>
    ELSE IF FullLength(ScannedPages(file)) < 50 THEN <<>>
    ELSE ScannedPages(file)

\* extractTextFromPDF: fullText, or null (<<>>) when reading the PDF throws
\* or the trimmed text is shorter than 50 characters
extractTextFromPDF(file) ==
    IF ~file.parses THEN <<>>
    ELSE IF TrimmedLength(ScannedPages(file)) < 50 THEN <<>>
    ELSE ScannedPages(file)

\* generatePdfPreview without its catch
generatePdfPreview_Rethrows(file) ==
    IF file.renders THEN DataUrl("image/jpeg", "page1") ELSE Thrown

\* generatePdfPreview: page 1 as a JPEG data URL, '' when anything throws
generatePdfPreview(file) ==
    IF file.renders THEN DataUrl("image/jpeg", "page1") ELSE <<>>

\* compressImage: the file itself when it is at most 1 MiB or when the
\* image cannot be decoded or drawn, else a new JPEG file named *.jpg
compressImage(file) ==
    IF ~file.large THEN file
    ELSE IF file.renders
    THEN [file EXCEPT !.type = "image/jpeg",
                      !.name = SubSeq(file.name, 1, Len(file.name) - 4) \o ".jpg"]
    ELSE file

\* processFile's result object
ProcessedFile(content, mimeType, isText, preview) ==
    [status |-> "returned", content |-> content, mimeType |-> mimeType,
     isText |-> isText, preview |-> preview]

\* processFile rejecting the promise
Rejected == [status |-> "threw", content |-> Empty, mimeType |-> "",
             isText |-> FALSE, preview |-> <<>>]

\* processFile, step B: the routing by file type
processFile(file) ==
    IF file.type = "application/pdf"
    THEN LET preview == generatePdfPreview(file)
             extractedText == extractTextFromPDF(file)
         IN IF preview = Thrown THEN Rejected
            ELSE IF extractedText # <<>>
            THEN ProcessedFile(Text(extractedText), "text/plain", TRUE, preview)
            ELSE IF preview # <<>>
            THEN ProcessedFile(Base64(preview[2]), "image/jpeg", FALSE, preview)
            ELSE ProcessedFile(Empty, file.type, FALSE, preview)
    ELSE IF SubSeq(file.type, 1, 6) = "image/"
    THEN LET fileToUpload == compressImage(file)
             base64Data == DataUrl(fileToUpload.type, "image")
         IN ProcessedFile(Base64(base64Data[2]), "image/jpeg", FALSE, base64Data)
    ELSE IF SubSeq(file.name, Len(file.name) - 4, Len(file.name)) = ".docx"
    THEN IF file.parses
         THEN ProcessedFile(Text(<<[lead |-> 0, ink |-> 50]>>), "text/plain", TRUE, <<>>)
         ELSE Rejected
    ELSE IF file.type = "text/plain"
    THEN ProcessedFile(Text(<<[lead |-> 0, ink |-> 50]>>), "text/plain", TRUE, <<>>)
    ELSE ProcessedFile(Empty, file.type, FALSE, <<>>)

\* a file has been chosen and processFile has not been called yet
InitProcess ==
    /\ dbDocs = {}
    /\ dbRems = {}
    /\ storage = {}
    /\ removeIssued = {}
    /\ documents = {}
    /\ manualReminders = {}
    /\ isUploading = FALSE
    /\ task = [t \in TaskIds |-> Idle]
    /\ alert = "none"
    /\ ops = 0
    /\ faults = 0
    /\ originalFile \in Files
    /\ processed = NotCalled
    /\ icsContent = <<>>
    /\ reminderTime = <<>>
    /\ history = <<>>
    /\ localStorage = saveChatHistory(<<>>)
    /\ isLoading = FALSE

\* the call processFile(originalFile)
CallProcessFile ==
    /\ processed = NotCalled
    /\ processed' = processFile(originalFile)
    /\ UNCHANGED <<originalFile, icsContent, reminderTime>>
    /\ UNCHANGED chatVars
    /\ UNCHANGED appVars

NextProcess == CallProcessFile

SpecProcess == InitProcess /\ [][NextProcess]_vars

\* the file types the pipeline supports: PDF, raster image, .docx, plain text
Supported(file) ==
    \/ file.type = "application/pdf"
    \/ SubSeq(file.type, 1, 6) = "image/"
    \/ SubSeq(file.name, Len(file.name) - 4, Len(file.name)) = ".docx"
    \/ file.type = "text/plain"

\* C14: a file that is not a PDF, a raster image, a .docx document or plain
\* text is rejected: processFile does not return a result for it.
C14_UnsupportedRejected ==
    (processed.status # "not called" /\ ~Supported(originalFile))
        => processed.status = "threw"

\* L of the claim: the length of the trimmed text of the first five pages
L == TrimmedLength(ScannedPages(originalFile))

C19_PdfNeverFails ==
    (processed.status # "not called" /\ originalFile.type = "application/pdf")
        => /\ processed.status = "returned"
           /\ ~originalFile.parses =>
                 /\ processed.isText = FALSE
                 /\ originalFile.renders =>
                       /\ processed.content = Base64("page1")
                       /\ processed.mimeType = "image/jpeg"
           /\ ~originalFile.renders =>
                 /\ processed.preview = <<>>
                 /\ processed.isText = (originalFile.parses /\ L >= 50)

\* processFile has returned for a PDF with 50 characters of text whose text
\* layer could not be read and whose first page could not be rendered
C19_Witness ==
    /\ processed.status = "returned"
    /\ originalFile.type = "application/pdf"
    /\ ~originalFile.parses /\ ~originalFile.renders
    /\ L >= 50
    /\ processed.content = Empty /\ processed.preview = <<>>

\* C15: the stages of one upload run in the order fingerprint,
\* normalization, duplicate check, extraction, assembly, persistence, and no
\* effect of a later stage precedes an earlier stage: while an upload has
\* not finished its extraction (it is at its duplicate check, in
\* processFile or in analyzeDocument) its storage object has not been
\* written.  (Upload n writes its file under storage path n.)
C15_StorageAfterExtraction ==
    \A t \in TaskIds :
        (task[t].kind = "upload" /\ task[t].pc \in {"check", "process", "analyze"})
            => task[t].id \notin storage

\* the alerts that carry the backend's error message
DetailedAlerts ==
    {"Database Error: detail", "Failed to save reminders: detail", DbDeleteAlert}

\* C16: every failure of a persistence operation reaches the user with the
\* backend's error detail: when the document write, the reminder write or
\* the document delete of a handler fails, and when a load of the page
\* fails, the alert shown is one that carries the backend's message.
C16_FailuresShownWithDetail ==
    [][/\ \A t \in TaskIds :
             (task[t].pc \in {"save_upsert", "save_insert", "del_db"}
                 /\ task'[t].pc # task[t].pc /\ faults' = faults + 1)
                => alert' \in DetailedAlerts
       /\ (Running = {} /\ faults' = faults + 1) => alert' \in DetailedAlerts]_vars

\* C17: no failure of a backend call leaves a Dashboard handler without an
\* alert: a handler that ends in the step in which one of its backend calls
\* failed has shown an alert.
C17_FailureEndsInAlert ==
    [][\A t \in TaskIds :
         (Returns(t) /\ faults' = faults + 1) => alert' # "none"]_vars

\* ---- calendar export: downloadCalendarFile ----

\* the documents a store may hold when the calendar is exported: documents
\* 1 and 2 of the session's user, each with or without an eventDate and an
\* expiryDate and with up to MaxRems reminders
CalendarDocs ==
    {[owner |-> user,
      doc |-> [NoDoc EXCEPT !.id = i, !.file_path = i, !.title = "T1",
                            !.contentHash = calculateFileHash("A"),
                            !.type = "Ticket", !.eventDate = ev, !.expiryDate = ex,
                            !.processedReminders = ProcessedReminders(i, n)]] :
        i \in {1, 2}, ev \in {Undefined, "2025-03-01"},
        ex \in {Undefined, "2026-03-01"}, n \in 0..MaxRems}

\* reminder.time: absent (a manual reminder entered without a time), null
\* (read from a row without one) or HH:MM; and reminder.date
ReminderTimes == {Undefined, Null, "09:30"}
ReminderDate == "2025-02-27"

\* document i stored in one of its forms, or not stored
StoredOrNot(i) == {{}} \cup {{c} : c \in {x \in CalendarDocs : x.doc.id = i}}

\* the session has loaded such a store and nothing has been exported yet
InitCalendar ==
    /\ \E S \in {A \cup B : A \in StoredOrNot(1), B \in StoredOrNot(2)},
          M \in SUBSET {user} :
          /\ dbDocs = {RowOf(c) : c \in S}
          /\ dbRems = UNION {ReminderRowsOf(c) : c \in S} \cup {ManualRowOf(u) : u \in M}
          /\ storage = {c.doc.file_path : c \in S}
    /\ removeIssued = {}
    /\ documents = loadDocumentsFromSupabase(FALSE)
    /\ manualReminders = loadManualRemindersFromSupabase(FALSE)
    /\ isUploading = FALSE
    /\ task = [t \in TaskIds |-> Idle]
    /\ alert = "none"
    /\ ops = 0
    /\ faults = 0
    /\ originalFile = NoFile
    /\ processed = NotCalled
    /\ icsContent = <<>>
    /\ reminderTime \in [allReminders -> ReminderTimes]
    /\ history = <<>>
    /\ localStorage = saveChatHistory(<<>>)
    /\ isLoading = FALSE

\* the elements of a finite set in some fixed order (the order of an array)
RECURSIVE ArrayOf(_)
ArrayOf(S) ==
    IF S = {} THEN <<>>
    ELSE LET x == CHOOSE y \in S : TRUE IN <<x>> \o ArrayOf(S \ {x})

\* the UID line with the suffix left out
EventUid_WithoutSuffix(id, suffix) == [id |-> id, suffix |-> "", domain |-> "@travault.app"]

\* the UID line `${id}${suffix}@travault.app`; ids are UUIDs, all of one
\* length, so that two UIDs are equal only if id and suffix are
EventUid(id, suffix) == [id |-> id, suffix |-> suffix, domain |-> "@travault.app"]

\* s.replace(/c/g, ''): the string s without its characters c
RECURSIVE Without(_, _)
Without(s, c) ==
    IF Len(s) = 0 THEN ""
    ELSE (IF SubSeq(s, 1, 1) = c THEN "" ELSE SubSeq(s, 1, 1))
            \o Without(SubSeq(s, 2, Len(s)), c)

\* JavaScript's truthiness of a string, null or undefined
Truthy(v) == v \notin {Undefined, Null, ""}

\* the DTSTART line of an all-day event whatever the time
formatICSDate_AlwaysAllDay(dateStr, timeStr) ==
    "DTSTART;VALUE=DATE:" \o Without(dateStr, "-")

\* the DTSTART line: a date-time when a time is given, else a date
formatICSDate(dateStr, timeStr) ==
    IF Truthy(timeStr)
    THEN "DTSTART:" \o Without(dateStr, "-") \o "T" \o Without(timeStr, ":") \o "00"
    ELSE "DTSTART;VALUE=DATE:" \o Without(dateStr, "-")

\* the VEVENTs of one document, exported at time now
DocumentEvents(doc, now) ==
    (IF Truthy(doc.eventDate)
     THEN <<[uid |-> EventUid(<<doc.id, 0>>, "-event"), dtstamp |-> now,
             dtstart |-> formatICSDate(doc.eventDate, Undefined)]>>
     ELSE <<>>)
    \o (IF Truthy(doc.expiryDate)
        THEN <<[uid |-> EventUid(<<doc.id, 0>>, "-expiry"), dtstamp |-> now,
                dtstart |-> formatICSDate(doc.expiryDate, Undefined)]>>
        ELSE <<>>)

\* the VEVENTs of a list of documents
RECURSIVE DocumentsEvents(_, _)
DocumentsEvents(docs, now) ==
    IF docs = <<>> THEN <<>>
    ELSE DocumentEvents(Head(docs), now) \o DocumentsEvents(Tail(docs), now)

\* the VEVENTs of a list of reminders
RECURSIVE ReminderEvents(_, _)
ReminderEvents(rems, now) ==
    IF rems = <<>> THEN <<>>
    ELSE <<[uid |-> EventUid(Head(rems), ""), dtstamp |-> now,
            dtstart |-> formatICSDate(ReminderDate, reminderTime[Head(rems)])]>>
            \o ReminderEvents(Tail(rems), now)

\* downloadCalendarFile(documents, reminders) run at time now: the VEVENTs
\* of the file, in order
downloadCalendarFile(docs, reminders, now) ==
    DocumentsEvents(docs, now) \o ReminderEvents(reminders, now)

\* handleExportCalendar: the Export button
handleExportCalendar(now) ==
    /\ Len(icsContent) < MaxExports
    /\ icsContent' = Append(icsContent,
                            downloadCalendarFile(ArrayOf(documents),
                                                 ArrayOf(allReminders), now))
    /\ UNCHANGED <<originalFile, processed, reminderTime>>
    /\ UNCHANGED chatVars
    /\ UNCHANGED appVars

NextCalendar == \E now \in 1..MaxExports : handleExportCalendar(now)

SpecCalendar == InitCalendar /\ [][NextCalendar]_vars

\* the UIDs of an exported file, in order
Uids(file) == [k \in 1..Len(file) |-> file[k].uid]

\* C20: all exports made from the same documents and reminders carry the
\* same UIDs in the same places; within one export no two events have the
\* same UID; and the UIDs are those derived from the ids alone: one for the
\* eventDate and one for the expiryDate of each document that has it, and
\* one for every reminder.
C20_StableDistinctUids ==
    /\ \A i, j \in 1..Len(icsContent) : Uids(icsContent[i]) = Uids(icsContent[j])
    /\ \A i \in 1..Len(icsContent) :
          /\ \A k, l \in 1..Len(icsContent[i]) :
                icsContent[i][k].uid = icsContent[i][l].uid => k = l
          /\ {icsContent[i][k].uid : k \in 1..Len(icsContent[i])}
                = {EventUid(<<d.id, 0>>, "-event") :
                      d \in {x \in documents : x.eventDate # Undefined}}
                  \cup {EventUid(<<d.id, 0>>, "-expiry") :
                      d \in {x \in documents : x.expiryDate # Undefined}}
                  \cup {EventUid(r, "") : r \in allReminders}
          /\ Len(icsContent[i])
                = Cardinality({x \in documents : x.eventDate # Undefined})
                  + Cardinality({x \in documents : x.expiryDate # Undefined})
                  + Cardinality(allReminders)

\* the calendar was exported twice, at different times, from two documents
\* one of which has both dates and a reminder, and a manual reminder
C20_Witness ==
    /\ Len(icsContent) = 2
    /\ icsContent[1] # icsContent[2]
    /\ Cardinality(documents) = 2
    /\ \E d \in documents :
          d.eventDate # Undefined /\ d.expiryDate # Undefined
             /\ d.processedReminders # {}
    /\ manualReminders # {}

\* the events of an exported file that carry the UID uid
EventsOf(file, uid) == {k \in 1..Len(file) : file[k].uid = uid}

\* C21: every exported calendar holds exactly one event for each document
\* that has an eventDate, one for each document that has an expiryDate and
\* one for each reminder of the list passed in, and nothing else; document
\* events are all-day events on the document's date; a reminder's event is
\* a timed event at the reminder's time when the reminder has a time and an
\* all-day event on the reminder's date when it has none.
C21_OneEventEach ==
    \A i \in 1..Len(icsContent) :
       LET file == icsContent[i] IN
       /\ \A d \in documents :
             /\ Cardinality(EventsOf(file, EventUid(<<d.id, 0>>, "-event")))
                   = IF d.eventDate = Undefined THEN 0 ELSE 1
             /\ Cardinality(EventsOf(file, EventUid(<<d.id, 0>>, "-expiry")))
                   = IF d.expiryDate = Undefined THEN 0 ELSE 1
             /\ \A k \in EventsOf(file, EventUid(<<d.id, 0>>, "-event")) :
                   file[k].dtstart = "DTSTART;VALUE=DATE:20250301"
             /\ \A k \in EventsOf(file, EventUid(<<d.id, 0>>, "-expiry")) :
                   file[k].dtstart = "DTSTART;VALUE=DATE:20260301"
       /\ \A r \in allReminders :
             /\ Cardinality(EventsOf(file, EventUid(r, ""))) = 1
             /\ \A k \in EventsOf(file, EventUid(r, "")) :
                   file[k].dtstart = IF reminderTime[r] = "09:30"
                                     THEN "DTSTART:20250227T093000"
                                     ELSE "DTSTART;VALUE=DATE:20250227"
       /\ \A k \in 1..Len(file) :
             \/ \E d \in documents :
                   file[k].uid \in {EventUid(<<d.id, 0>>, "-event"),
                                    EventUid(<<d.id, 0>>, "-expiry")}
             \/ \E r \in allReminders : file[k].uid = EventUid(r, "")

\* a calendar was exported from a document with both dates and a reminder
\* that has a time, and a manual reminder that has none
C21_Witness ==
    /\ Len(icsContent) >= 1
    /\ \E d \in documents :
          /\ d.eventDate # Undefined /\ d.expiryDate # Undefined
          /\ \E r \in d.processedReminders : reminderTime[r] = "09:30"
    /\ \E r \in manualReminders : reminderTime[r] = Undefined

\* ---- chat: ChatAssistant ----

\* the longest history a behaviour builds
MaxMessages == 6

\* what the user may have typed, a blank line included, and what
\* chatWithDocuments may answer
Inputs == {" ", "hi", "visa?"}
Replies == {"reply"}
ErrorText == "Sorry, I encountered an error. Please try again."

\* a ChatMessage; id and timestamp are readings of the clock and are left out
ChatMessage(role, text) == [role |-> role, text |-> text]

\* handleSend up to its await: the user message is appended, the reply is
\* awaited; the effect on [history] stores the new history
handleSend(input) ==
    /\ Without(input, " ") # ""
    /\ ~isLoading
    /\ Len(history) + 2 <= MaxMessages
    /\ history' = Append(history, ChatMessage("user", input))
    /\ localStorage' = saveChatHistory(history')
    /\ isLoading' = TRUE
    /\ UNCHANGED <<originalFile, processed, icsContent, reminderTime>>
    /\ UNCHANGED appVars

\* the reply appended to the history handleSend saw when it started
ReceiveReply_OntoSnapshot(out) ==
    /\ isLoading
    /\ history' = Append(SubSeq(history, 1, Len(history) - 1),
                         ChatMessage("model", IF out = "throw" THEN ErrorText ELSE out))
    /\ localStorage' = saveChatHistory(history')
    /\ isLoading' = FALSE
    /\ UNCHANGED <<originalFile, processed, icsContent, reminderTime>>
    /\ UNCHANGED appVars

\* handleSend after its await: chatWithDocuments has answered or thrown,
\* the model message is appended to the history as it is now
ReceiveReply(out) ==
    /\ isLoading
    /\ history' = Append(history,
                         ChatMessage("model", IF out = "throw" THEN ErrorText ELSE out))
    /\ localStorage' = saveChatHistory(history')
    /\ isLoading' = FALSE
    /\ UNCHANGED <<originalFile, processed, icsContent, reminderTime>>
    /\ UNCHANGED appVars

\* handleClear, the user confirming; the button is there whether or not a
\* reply is awaited
handleClear ==
    /\ history' = <<>>
    /\ localStorage' = saveChatHistory(history')
    /\ UNCHANGED isLoading
    /\ UNCHANGED <<originalFile, processed, icsContent, reminderTime>>
    /\ UNCHANGED appVars

NextChat ==
    \/ \E input \in Inputs : handleSend(input)
    \/ \E out \in Replies \cup {"throw"} : ReceiveReply(out)
    \/ handleClear

SpecChat == Init /\ [][NextChat]_vars

\* C22: the history stored under the fixed key, read back, is the history
\* in memory in every state; and every step that changes the history either
\* appends one user message and starts a send, or appends one model message
\* (the reply or the error text) and ends the send that was waiting, or is
\* a clear that leaves it empty: earlier messages are never changed, removed
\* or reordered otherwise.
C22_AppendOnlyAndStored ==
    /\ [](localStorage.present /\ JSONparse(localStorage.value) = history)
    /\ [][\/ history' = history
          \/ /\ ~isLoading /\ isLoading'
             /\ \E input \in Inputs : history' = Append(history, ChatMessage("user", input))
          \/ /\ isLoading /\ ~isLoading'
             /\ \E text \in Replies \cup {ErrorText} :
                   history' = Append(history, ChatMessage("model", text))
          \/ /\ history' = <<>>
             /\ isLoading' = isLoading]_vars

\* two sends have been answered, one of them with the error text, and the
\* four messages are stored
C22_Witness ==
    /\ Len(history) = 4 /\ ~isLoading
    /\ history[1].role = "user" /\ history[2].role = "model"
    /\ history[3].role = "user" /\ history[4].text = ErrorText
    /\ localStorage.value = JSONstringify(history)

\* C30: the history alternates user message, model message, starting with
\* a user message.
C30_Alternates ==
    \A k \in 1..Len(history) :
        history[k].role = IF k % 2 = 1 THEN "user" ELSE "model"

\* ---- the session, continued ----

\* C23: a save of an edit (handleSaveDoc) leaves the document row's
\* file_path and content_hash as they were before its upsert, and when the
\* handler returns after a successful save the document's reminder rows are
\* those that were there when it started.
C23_EditKeepsFileAndReminders ==
    [][\A t \in TaskIds :
         /\ (task[t].kind = "saveDoc" /\ Leaves(t, "save_upsert")) =>
               \A r \in dbDocs : r.id = task[t].id =>
                  \E q \in dbDocs' :
                     /\ q.id = r.id
                     /\ q.file_path = r.file_path
                     /\ q.content_hash = r.content_hash
         /\ (task[t].kind = "saveDoc" /\ Leaves(t, "save_return")) =>
               {r \in dbRems' : r.document_id = task[t].id} = task[t].before.rems]_vars

\* C24: when an upload handler returns, the storage object it wrote (if it
\* wrote one) is the file_path of a document row, and if its storage upload
\* failed it has saved no document row.
C24_NoOrphanObject ==
    [][\A t \in TaskIds :
         (task[t].kind = "upload" /\ Returns(t)) =>
            /\ task[t].publicUrl # 0 =>
                  \E r \in dbDocs' : r.file_path = task[t].publicUrl
            /\ task[t].publicUrl = 0 =>
                  \A r \in dbDocs' : r.id # task[t].id]_vars

\* C25: once handleDeleteDoc has returned after deleting a document (the
\* document is gone from the local list and its row from the store), no
\* step of a handleSaveDoc or handleDeleteReminder still in flight for that
\* document brings a document row or a reminder row of that id into the
\* store.
C25_NoResurrection ==
    [][\A t \in TaskIds :
         (/\ task[t].kind \in {"saveDoc", "delReminder"}
          /\ task[t].pc # "done"
          /\ \A d \in documents : d.id # task[t].id) =>
            /\ \A r \in dbDocs' : r.id = task[t].id => \E q \in dbDocs : q.id = r.id
            /\ \A r \in dbRems' :
                  r.document_id = task[t].id =>
                     \E q \in dbRems : q.document_id = r.document_id]_vars

\* ---- handleDeleteReminder on a document with several reminders ----

\* a stored document of the session's user with n reminders
ReminderDoc(n) ==
    [owner |-> user,
     doc |-> [NoDoc EXCEPT !.id = 50, !.file_path = 50, !.title = "T1",
                           !.contentHash = calculateFileHash("A"),
                           !.type = "Ticket",
                           !.processedReminders = ProcessedReminders(50, n)]]

\* the session has loaded a document with at least two reminders
InitReminders ==
    /\ \E n \in 2..(MaxRems + 2) :
          /\ dbDocs = {RowOf(ReminderDoc(n))}
          /\ dbRems = ReminderRowsOf(ReminderDoc(n))
    /\ storage = {50}
    /\ removeIssued = {}
    /\ documents = loadDocumentsFromSupabase(FALSE)
    /\ manualReminders = {}
    /\ isUploading = FALSE
    /\ task = [t \in TaskIds |-> Idle]
    /\ alert = "none"
    /\ ops = 0
    /\ faults = 0
    /\ originalFile = NoFile
    /\ processed = NotCalled
    /\ icsContent = <<>>
    /\ reminderTime = <<>>
    /\ history = <<>>
    /\ localStorage = saveChatHistory(<<>>)
    /\ isLoading = FALSE

\* the delete buttons of the document's reminders, each pressed at most
\* once (invocation t is for reminder t), and the saves they start; no
\* backend call fails
NextReminders ==
    \/ \E t \in TaskIds, d \in documents : handleDeleteReminder(t, d, <<d.id, t>>)
    \/ \E t \in TaskIds : SaveUpsert(t, FALSE)
    \/ \E t \in TaskIds : SaveDelete(t, FALSE)
    \/ \E t \in TaskIds : SaveInsert(t, FALSE)
    \/ \E t \in TaskIds : SaveReturn(t)

SpecReminders == InitReminders /\ [][NextReminders]_vars

\* C26: when all handleDeleteReminder calls made so far (each for a
\* different reminder of the document) have finished, also calls started
\* before one another had finished, none of their reminders exists in the
\* store or in the local document's processedReminders.  (Stated for the
\* calls that leave the document at least one reminder; the save of an
\* empty reminder set is the case of C5.)
C26_BothRemoved ==
    (Running = {} /\ \A d \in documents : d.processedReminders # {}) =>
        \A k \in 1..ops :
            /\ \A r \in dbRems : r.id # <<50, k>>
            /\ \A d \in documents : <<50, k>> \notin d.processedReminders

\* the uploads that handleFileChange has taken up and not yet finished
UploadsInFlight ==
    {t \in TaskIds : task[t].kind = "upload"
                       /\ task[t].pc \in {"process", "analyze", "save_upsert",
                                          "save_delete", "save_insert", "save_return"}}

\* C27: isUploading is true in every state in which an upload taken up by
\* handleFileChange has not finished, and false when no upload at all is
\* in flight.
C27_FlagCoversUploads ==
    /\ UploadsInFlight # {} => isUploading
    /\ (\A t \in TaskIds : task[t].kind # "upload") => ~isUploading

\* C28: a manual reminder is in the local manualReminders list only if its
\* row is in the store: handleAddReminder adds to the list nothing that was
\* not persisted, so that whenever no handler is in flight the local manual
\* reminders are the user's manual reminder rows.
C28_LocalOnlyIfPersisted ==
    /\ [][\A t \in TaskIds :
            (task[t].kind = "addReminder" /\ Returns(t)) =>
               \A r \in manualReminders' \ manualReminders :
                  \E q \in ManualRows' : q.id = r /\ q.user_id = user]_vars
    /\ [](Running = {} =>
            manualReminders = {q.id : q \in {x \in ManualRows : x.user_id = user}})

\* C29: for every supported file processFile returns a result for, the
\* result is text labelled text/plain, or a non-empty base64 payload
\* labelled with the encoding of the image it was taken from (the media
\* type of the data URL, which processFile also returns as preview).
C29_WellFormedResult ==
    (processed.status = "returned" /\ Supported(originalFile)) =>
        \/ /\ processed.isText
           /\ processed.mimeType = "text/plain"
           /\ processed.content.base64 = ""
        \/ /\ ~processed.isText
           /\ processed.content.text = <<>>
           /\ processed.content.base64 # ""
           /\ processed.preview # <<>>
           /\ processed.mimeType = processed.preview[1]
           /\ processed.content.base64 = processed.preview[2]
====
